---- MODULE Spec2Model ----
(***************************************************************************)
(* A model of the Foodly backend (Express + sqlite3): the startup schema   *)
(* step, POST /api/login, POST /api/order, GET /api/orders/:username and   *)
(* GET /api/cart-history/:username, over the three tables users, orders    *)
(* and cart_history.                                                       *)
(*                                                                         *)
(* Line numbers refer to src/unnamed/part_000 (the deployed variant);      *)
(* src/server.js has the same handlers, without the logging callbacks.     *)
(*                                                                         *)
(* Every sqlite3 statement (db.get, db.run, db.all) is asynchronous: the   *)
(* handler issues it and returns, the statement executes later as one      *)
(* atomic step on the single connection, and its callback runs right after *)
(* it.  Each action below is either the synchronous part of a handler or   *)
(* one statement together with its callback.                               *)
(*                                                                         *)
(* A statement fails for a reason the source shows: the handle never       *)
(* opened (part_000:23-26, every later statement then fails), the UNIQUE   *)
(* constraint on users.username, or a NOT NULL constraint.  The FOREIGN    *)
(* KEY clauses are not enforced: the program never sets PRAGMA             *)
(* foreign_keys.  Statements are not serialized (no db.serialize), so the  *)
(* statements pending at one time execute in any order.                    *)
(***************************************************************************)
EXTENDS Integers, Sequences, FiniteSets, TLC

(***************************************************************************)
(* Bounds of the model.                                                    *)
(***************************************************************************)
MaxReq == 2
MaxItems == 2
MaxClock == 1
MaxBoots == 2

(***************************************************************************)
(* JavaScript values of a JSON request body, tagged by type.               *)
(***************************************************************************)
Undefined == [t |-> "undefined"]
Null == [t |-> "null"]
Str(s) == [t |-> "string", s |-> s]
Num(n) == [t |-> "number", n |-> n]
Arr(a) == [t |-> "array", a |-> a]
Obj(id, name, quantity, price) ==
    [t |-> "object", id |-> id, name |-> name, quantity |-> quantity, price |-> price]

\* !v of JavaScript: undefined, null, "" and 0 are falsy; every array and
\* object, the empty array included, and every negative number is truthy.
Truthy(v) ==
    /\ v.t \notin {"undefined", "null"}
    /\ (v.t = "string" => v.s # "")
    /\ (v.t = "number" => v.n # 0)

\* The value sqlite3 binds for a parameter: undefined and null bind NULL.
Bind(v) == IF v.t \in {"undefined", "null"} THEN Null ELSE v

RECURSIVE JoinJSON(_, _)
RECURSIVE JSONstringify(_)
\* JSON.stringify: an object drops its undefined properties, an array writes
\* null for an undefined element.
JSONmember(key, v, first) ==
    IF v.t = "undefined" THEN ""
    ELSE (IF first THEN "" ELSE ",") \o "\"" \o key \o "\":" \o JSONstringify(v)
JSONstringify(v) ==
    CASE v.t = "string" -> "\"" \o v.s \o "\""
      [] v.t = "number" -> ToString(v.n)
      [] v.t = "null" -> "null"
      [] v.t = "undefined" -> "null"
      [] v.t = "array" -> "[" \o JoinJSON(v.a, 1) \o "]"
      [] v.t = "object" ->
            "{" \o JSONmember("id", v.id, TRUE)
                \o JSONmember("name", v.name, v.id.t = "undefined")
                \o JSONmember("quantity", v.quantity,
                              v.id.t = "undefined" /\ v.name.t = "undefined")
                \o JSONmember("price", v.price,
                              /\ v.id.t = "undefined"
                              /\ v.name.t = "undefined"
                              /\ v.quantity.t = "undefined")
                \o "}"
JoinJSON(a, i) ==
    IF i > Len(a) THEN ""
    ELSE (IF i = 1 THEN "" ELSE ",") \o JSONstringify(a[i]) \o JoinJSON(a, i + 1)

(***************************************************************************)
(* The store: three tables of rows, in insertion order.                    *)
(***************************************************************************)
Tables == {"users", "orders", "cart_history"}

VARIABLES
    proc,          \* "starting" | "up" | "down": the node process
    boots,         \* how many times the process has been started
    dbOpen,        \* the sqlite3 handle opened without error
    ddl,           \* CREATE TABLE statements issued and not yet executed
    ddlErrors,     \* CREATE TABLE statements that raised an error
    schema,        \* the tables that exist in the store file
    users,         \* rows of table users
    orders,        \* rows of table orders
    cart_history,  \* rows of table cart_history
    clock,         \* CURRENT_TIMESTAMP, in seconds
    reqs           \* the HTTP requests received so far, in order of arrival

vars == <<proc, boots, dbOpen, ddl, ddlErrors, schema, users, orders, cart_history, clock, reqs>>
store == <<schema, users, orders, cart_history>>

\* INTEGER PRIMARY KEY AUTOINCREMENT: no row is ever deleted, so the next id
\* is one more than the number of rows.
NextId(table) == Len(table) + 1

UserRow(id, username, password, now) ==
    [id |-> id, username |-> username, password |-> password, created_at |-> now]
OrderRow(id, username, items, total, now) ==
    [id |-> id, username |-> username, items |-> items, total |-> total, order_date |-> now]
CartRow(id, username, item_id, item_name, quantity, price, now) ==
    [id |-> id, username |-> username, item_id |-> item_id, item_name |-> item_name,
     quantity |-> quantity, price |-> price, added_date |-> now]

Pizza == Obj(Num(1), Str("Pizza"), Num(2), Num(150))
Burger == Obj(Num(2), Str("Burger"), Num(1), Num(90))
\* a line item without a name: item.name is undefined
Nameless == Obj(Num(3), Undefined, Num(1), Num(50))

\* The store files the process may find at its first start: none yet, one
\* that an interrupted first start left with the users table alone, and one
\* that an earlier run of the program filled (at second 0, before the
\* clock of this model starts).
FreshStore ==
    [schema |-> {}, users |-> <<>>, orders |-> <<>>, cart_history |-> <<>>]
PartialStore ==
    [schema |-> {"users"}, users |-> <<>>, orders |-> <<>>, cart_history |-> <<>>]
UsedStore ==
    [schema |-> Tables,
     users |-> << UserRow(1, Str("bob"), Str("x"), 0) >>,
     orders |-> << OrderRow(1, Str("bob"), JSONstringify(Arr(<<Burger>>)), Num(90), 0) >>,
     cart_history |-> << CartRow(1, Str("bob"), Num(2), Str("Burger"), Num(1), Num(90), 0) >>]
InitialStores == {FreshStore, PartialStore, UsedStore}

Init ==
    /\ proc = "starting"
    /\ boots = 1
    /\ dbOpen = FALSE
    /\ ddl = {}
    /\ ddlErrors = 0
    /\ \E s \in InitialStores :
        /\ schema = s.schema
        /\ users = s.users
        /\ orders = s.orders
        /\ cart_history = s.cart_history
    /\ clock = 1
    /\ reqs = <<>>

(***************************************************************************)
(* Startup: new sqlite3.Database(dbPath, callback).                        *)
(***************************************************************************)
\* The callback of the open: on an error it only logs, otherwise it issues
\* the three CREATE TABLE IF NOT EXISTS statements.
OpenDatabase ==
    /\ proc = "starting"
    /\ \E err \in BOOLEAN :
        /\ dbOpen' = ~err
        /\ ddl' = IF err THEN {} ELSE Tables
    /\ proc' = "up"
    /\ UNCHANGED <<boots, ddlErrors, schema, users, orders, cart_history, clock, reqs>>

\* What CREATE TABLE does to the set of tables; ifNotExists is the IF NOT
\* EXISTS clause.  The result is the new set and whether an error is raised.
CreateTableSql(tables, t, ifNotExists) ==
    IF t \in tables
    THEN [schema |-> tables, error |-> ~ifNotExists]
    ELSE [schema |-> tables \cup {t}, error |-> FALSE]

\* CREATE TABLE without IF NOT EXISTS.
CreateTableNoClause(tables, t) == CreateTableSql(tables, t, FALSE)
CreateTable(tables, t) == CreateTableSql(tables, t, TRUE)

\* One of the three db.run(`CREATE TABLE IF NOT EXISTS ...`) executes.
RunCreateTable(t) ==
    /\ t \in ddl
    /\ LET r == CreateTable(schema, t) IN
        /\ schema' = r.schema
        /\ ddlErrors' = ddlErrors + (IF r.error THEN 1 ELSE 0)
    /\ ddl' = ddl \ {t}
    /\ UNCHANGED <<proc, boots, dbOpen, users, orders, cart_history, clock, reqs>>

(***************************************************************************)
(* HTTP requests.  A request record holds the parsed body, the position of *)
(* its handler, the response (status 0: none sent yet) and bookkeeping:    *)
(*   sent     how many responses the handler has written                   *)
(*   rowId    this.lastID of the handler's INSERT (0: no row inserted)     *)
(*   pend     indexes of the line items whose history INSERT is pending    *)
(*   histIds  ids of the cart_history rows the call has inserted           *)
(*   histErrs how many of its history INSERTs failed                       *)
(*   histLost how many of its history INSERTs the ending process dropped   *)
(*   t0       the number of rows of each table when the request arrived    *)
(*   at       the number of rows of the table read when the SELECT ran     *)
(*   doneAt   the number of requests received when the response was sent   *)
(***************************************************************************)
Request(kind, username, password, items, total) ==
    [kind |-> kind, username |-> username, password |-> password,
     items |-> items, total |-> total,
     pc |-> "new", status |-> 0, sent |-> 0, msg |-> "", orderId |-> 0,
     total_out |-> Undefined, rows |-> <<>>,
     rowId |-> 0, pend |-> {}, histIds |-> {}, histErrs |-> 0, histLost |-> 0,
     t0 |-> [users |-> Len(users), orders |-> Len(orders),
             cart_history |-> Len(cart_history)],
     at |-> 0, doneAt |-> 0]

\* res.status(status).json({ message | error: msg, ... })
Respond(r, status, msg) ==
    [r EXCEPT !.status = status, !.msg = msg, !.sent = @ + 1,
              !.pc = "done", !.doneAt = Len(reqs)]

InFlight(r) == r.pc \notin {"done", "threw", "lost"}

\* The server accepts requests once the startup statements have run.
Listening == proc = "up" /\ ddl = {} /\ Len(reqs) < MaxReq

\* A statement on a table fails when the handle is not open or the table
\* does not exist.
StmtOk(table) == dbOpen /\ table \in schema

(***************************************************************************)
(* POST /api/login                                                         *)
(***************************************************************************)
\* A check of the username alone.
OnlyUsernamePresent(username, password) == Truthy(username)
\* part_000:67  if (!username || !password) is the rejection
LoginFieldsPresent(username, password) == Truthy(username) /\ Truthy(password)

\* A lookup that never finds a row.
NoRowFound(table, username) == <<>>
\* SELECT * FROM users WHERE username = ?  (db.get: the first matching row,
\* as a sequence of at most one row)
SelectUser(table, username) ==
    LET hits == {i \in 1..Len(table) : table[i].username = Bind(username)} IN
    IF hits = {} THEN <<>>
    ELSE << table[CHOOSE i \in hits : \A j \in hits : i <= j] >>

\* The INSERT on a column without the UNIQUE constraint.
InsertUserNoUnique(table, username, password, now) ==
    [error |-> FALSE,
     table |-> Append(table, UserRow(NextId(table), Bind(username), Bind(password), now))]
\* INSERT INTO users (username, password) VALUES (?, ?) under
\* username TEXT UNIQUE NOT NULL, password TEXT NOT NULL
InsertUser(table, username, password, now) ==
    IF \/ Bind(username) = Null
       \/ Bind(password) = Null
       \/ \E i \in 1..Len(table) : table[i].username = Bind(username)
    THEN [error |-> TRUE, table |-> table]
    ELSE [error |-> FALSE,
          table |-> Append(table, UserRow(NextId(table), Bind(username), Bind(password), now))]

LoginUsernames == {Undefined, Str(""), Str("alice"), Str("bob")}
LoginPasswords == {Undefined, Str(""), Str("x"), Str("y")}

\* The handler up to its db.get call.
PostLogin(username, password) ==
    /\ Listening
    /\ LET r == Request("login", username, password, Undefined, Undefined) IN
        reqs' = Append(reqs,
            IF ~LoginFieldsPresent(username, password)
            THEN [Respond(r, 400, "Username and password are required")
                    EXCEPT !.doneAt = Len(reqs) + 1]
            ELSE [r EXCEPT !.pc = "get"])
    /\ UNCHANGED <<proc, boots, dbOpen, ddl, ddlErrors, schema, users, orders,
                   cart_history, clock>>

\* The SELECT executes and its callback runs.
LoginGet(i) ==
    /\ i \in 1..Len(reqs)
    /\ reqs[i].kind = "login" /\ reqs[i].pc = "get"
    /\ LET r == reqs[i]
           err == ~StmtOk("users")
           row == SelectUser(users, r.username) IN
        reqs' = [reqs EXCEPT ![i] =
            IF proc # "up" THEN [r EXCEPT !.pc = "lost"]
            ELSE IF err THEN Respond(r, 500, "Database error")
            ELSE IF row # <<>> THEN Respond(r, 200, "Login successful")
            ELSE [r EXCEPT !.pc = "run"]]
    /\ UNCHANGED <<proc, boots, dbOpen, ddl, ddlErrors, schema, users, orders,
                   cart_history, clock>>

\* The INSERT executes and its callback runs.
LoginRun(i) ==
    /\ i \in 1..Len(reqs)
    /\ reqs[i].kind = "login" /\ reqs[i].pc = "run"
    /\ LET r == reqs[i]
           ins == IF StmtOk("users")
                  THEN InsertUser(users, r.username, r.password, clock)
                  ELSE [error |-> TRUE, table |-> users]
           r1 == [r EXCEPT !.rowId = IF ins.error THEN 0 ELSE Len(ins.table)] IN
        /\ users' = ins.table
        /\ reqs' = [reqs EXCEPT ![i] =
            IF proc # "up" THEN [r1 EXCEPT !.pc = "lost"]
            ELSE IF ins.error THEN Respond(r1, 500, "Failed to create user")
            ELSE Respond(r1, 200, "User created and login successful")]
    /\ UNCHANGED <<proc, boots, dbOpen, ddl, ddlErrors, schema, orders,
                   cart_history, clock>>

(***************************************************************************)
(* POST /api/order                                                         *)
(***************************************************************************)
\* part_000:98  if (!username || !items || !total) is the rejection
OrderFieldsPresent(username, items, total) ==
    Truthy(username) /\ Truthy(items) /\ Truthy(total)

\* INSERT INTO orders (username, items, total) VALUES (?, ?, ?) under
\* NOT NULL on the three columns; items is the JSON text.
InsertOrder(table, username, itemsJson, total, now) ==
    IF Bind(username) = Null \/ Bind(total) = Null
    THEN [error |-> TRUE, table |-> table]
    ELSE [error |-> FALSE,
          table |-> Append(table,
                        OrderRow(NextId(table), Bind(username), itemsJson, Bind(total), now))]

\* INSERT INTO cart_history (username, item_id, item_name, quantity, price)
\* VALUES (?, ?, ?, ?, ?) under NOT NULL on the five columns.
InsertCartHistory(table, username, item, now) ==
    IF \/ Bind(username) = Null
       \/ \E v \in {item.id, item.name, item.quantity, item.price} : Bind(v) = Null
    THEN [error |-> TRUE, table |-> table]
    ELSE [error |-> FALSE,
          table |-> Append(table,
                        CartRow(NextId(table), Bind(username), Bind(item.id), Bind(item.name),
                                Bind(item.quantity), Bind(item.price), now))]

\* items.forEach(item => db.run(..., [username, item.id, ...])): the number of
\* elements visited before a TypeError ends the loop.  A value that is not an
\* array has no forEach; reading item.id of a null element throws.
ForEachThrows(items) ==
    \/ items.t # "array"
    \/ \E k \in 1..Len(items.a) : items.a[k].t \in {"null", "undefined"}
ForEachVisited(items) ==
    IF items.t # "array" THEN {}
    ELSE {k \in 1..Len(items.a) :
            \A j \in 1..k : items.a[j].t \notin {"null", "undefined"}}

\* The callback without its return on an error.
IssuedDespiteError(err, items) == ForEachVisited(items)
\* The history INSERTs the callback of the order INSERT issues: none after an
\* error (part_000:107-110 returns), else one per element visited.
IssuedHistory(err, items) == IF err THEN {} ELSE ForEachVisited(items)

\* Arrays of one to MaxItems line items.
LineItems == {Pizza, Nameless, Null}
ItemArrays == {Arr(a) : a \in UNION {[1..n -> LineItems] : n \in 1..MaxItems}}

\* Request bodies of POST /api/order: every combination of a present or
\* missing field, and orders of the two customers over the arrays above.
OrderBodies ==
    ({Undefined, Str(""), Str("alice")}
        \X {Undefined, Arr(<<>>), Str("pizza"), Arr(<<Pizza>>)}
        \X {Undefined, Num(0), Num(-5), Num(300)})
    \cup ({Str("alice"), Str("bob")} \X ItemArrays \X {Num(300)})

\* The handler up to its db.run call.
PostOrder(username, items, total) ==
    /\ Listening
    /\ LET r == Request("order", username, Undefined, items, total) IN
        reqs' = Append(reqs,
            IF ~OrderFieldsPresent(username, items, total)
            THEN [Respond(r, 400, "Missing required fields")
                    EXCEPT !.doneAt = Len(reqs) + 1]
            ELSE [r EXCEPT !.pc = "run"])
    /\ UNCHANGED <<proc, boots, dbOpen, ddl, ddlErrors, schema, users, orders,
                   cart_history, clock>>

\* The order INSERT executes and its callback runs: on an error a 500, else
\* the forEach over items and then the success response.  A TypeError in the
\* forEach leaves the callback as an uncaught exception, which ends the
\* process before res.json is reached.
OrderRun(i) ==
    /\ i \in 1..Len(reqs)
    /\ reqs[i].kind = "order" /\ reqs[i].pc = "run"
    /\ LET r == reqs[i]
           ins == IF StmtOk("orders")
                  THEN InsertOrder(orders, r.username, JSONstringify(r.items), r.total, clock)
                  ELSE [error |-> TRUE, table |-> orders]
           r1 == [r EXCEPT !.rowId = IF ins.error THEN 0 ELSE Len(ins.table)]
           r2 == [r1 EXCEPT !.pend = IssuedHistory(ins.error, r.items)]
           throws == ~ins.error /\ ForEachThrows(r.items) IN
        /\ orders' = ins.table
        /\ IF proc # "up"
           THEN /\ reqs' = [reqs EXCEPT ![i] = [r1 EXCEPT !.pc = "lost"]]
                /\ proc' = proc
           ELSE IF ins.error
           THEN /\ reqs' = [reqs EXCEPT ![i] = Respond(r2, 500, "Failed to place order")]
                /\ proc' = proc
           ELSE IF throws
           THEN /\ reqs' = [reqs EXCEPT ![i] = [r2 EXCEPT !.pc = "threw"]]
                /\ proc' = "down"
           ELSE /\ reqs' = [reqs EXCEPT ![i] =
                        [Respond(r2, 200, "Order placed successfully")
                            EXCEPT !.orderId = r2.rowId, !.total_out = r.total]]
                /\ proc' = proc
    /\ UNCHANGED <<boots, dbOpen, ddl, ddlErrors, schema, users, cart_history, clock>>

\* One history INSERT executes; its callback only logs an error.
HistoryRun(i, k) ==
    /\ i \in 1..Len(reqs)
    /\ k \in reqs[i].pend
    /\ LET r == reqs[i]
           ins == IF StmtOk("cart_history")
                  THEN InsertCartHistory(cart_history, r.username, r.items.a[k], clock)
                  ELSE [error |-> TRUE, table |-> cart_history] IN
        /\ cart_history' = ins.table
        /\ reqs' = [reqs EXCEPT ![i] =
            [r EXCEPT !.pend = @ \ {k},
                      !.histIds = IF ins.error THEN @ ELSE @ \cup {Len(ins.table)},
                      !.histErrs = IF ins.error THEN @ + 1 ELSE @]]
    /\ UNCHANGED <<proc, boots, dbOpen, ddl, ddlErrors, schema, users, orders, clock>>

(***************************************************************************)
(* GET /api/orders/:username and GET /api/cart-history/:username           *)
(***************************************************************************)
\* The results a SELECT ... WHERE username = ? ORDER BY <date> DESC may
\* return: the matching rows, later dates first.  SQL leaves the order of
\* rows with equal dates open, so there can be several.
Descending(table, hits, column) ==
    LET n == Cardinality(hits) IN
    {[p \in 1..n |-> table[f[p]]] :
        f \in {g \in [1..n -> hits] :
                /\ \A p, q \in 1..n : p # q => g[p] # g[q]
                /\ \A p \in 1..n : p < n => table[g[p]][column] >= table[g[p + 1]][column]}}

\* The SELECT without its WHERE clause.
SelectOrdersOfAnyone(table, username) ==
    Descending(table, 1..Len(table), "order_date")
\* SELECT * FROM orders WHERE username = ? ORDER BY order_date DESC
SelectOrders(table, username) ==
    Descending(table, {i \in 1..Len(table) : table[i].username = Bind(username)}, "order_date")

\* SELECT * FROM cart_history WHERE username = ? ORDER BY added_date DESC
SelectCartHistory(table, username) ==
    Descending(table, {i \in 1..Len(table) : table[i].username = Bind(username)}, "added_date")

\* The :username path parameter is never empty.
PathUsernames == {Str("alice"), Str("bob")}

\* The handler up to its db.all call.
GetOrders(username) ==
    /\ Listening
    /\ reqs' = Append(reqs,
            [Request("orders", username, Undefined, Undefined, Undefined) EXCEPT !.pc = "all"])
    /\ UNCHANGED <<proc, boots, dbOpen, ddl, ddlErrors, schema, users, orders,
                   cart_history, clock>>

GetCartHistory(username) ==
    /\ Listening
    /\ reqs' = Append(reqs,
            [Request("cart-history", username, Undefined, Undefined, Undefined)
                EXCEPT !.pc = "all"])
    /\ UNCHANGED <<proc, boots, dbOpen, ddl, ddlErrors, schema, users, orders,
                   cart_history, clock>>

\* The SELECT executes and its callback answers with the rows or a 500.
OrdersAll(i) ==
    /\ i \in 1..Len(reqs)
    /\ reqs[i].kind = "orders" /\ reqs[i].pc = "all"
    /\ LET r == reqs[i] IN
        IF proc # "up"
        THEN reqs' = [reqs EXCEPT ![i] = [r EXCEPT !.pc = "lost"]]
        ELSE IF ~StmtOk("orders")
        THEN reqs' = [reqs EXCEPT ![i] = Respond(r, 500, "Database error")]
        ELSE \E rows \in SelectOrders(orders, r.username) :
                reqs' = [reqs EXCEPT ![i] =
                            [Respond(r, 200, "") EXCEPT !.rows = rows, !.at = Len(orders)]]
    /\ UNCHANGED <<proc, boots, dbOpen, ddl, ddlErrors, schema, users, orders,
                   cart_history, clock>>

CartHistoryAll(i) ==
    /\ i \in 1..Len(reqs)
    /\ reqs[i].kind = "cart-history" /\ reqs[i].pc = "all"
    /\ LET r == reqs[i] IN
        IF proc # "up"
        THEN reqs' = [reqs EXCEPT ![i] = [r EXCEPT !.pc = "lost"]]
        ELSE IF ~StmtOk("cart_history")
        THEN reqs' = [reqs EXCEPT ![i] = Respond(r, 500, "Database error")]
        ELSE \E rows \in SelectCartHistory(cart_history, r.username) :
                reqs' = [reqs EXCEPT ![i] =
                            [Respond(r, 200, "") EXCEPT !.rows = rows, !.at = Len(cart_history)]]
    /\ UNCHANGED <<proc, boots, dbOpen, ddl, ddlErrors, schema, users, orders,
                   cart_history, clock>>

(***************************************************************************)
(* The process ends and is started again on the same store file: after an  *)
(* uncaught exception, where the statements still queued are dropped and   *)
(* the requests in flight get no response, or by SIGINT, where db.close    *)
(* (part_000:318-327) lets the queued statements finish first.             *)
(***************************************************************************)
Quiescent == \A i \in 1..Len(reqs) : ~InFlight(reqs[i]) /\ reqs[i].pend = {}

Restart ==
    /\ boots < MaxBoots
    /\ \/ proc = "down"
       \/ proc = "up" /\ ddl = {} /\ Quiescent
    /\ proc' = "starting"
    /\ boots' = boots + 1
    /\ dbOpen' = FALSE
    /\ ddl' = {}
    /\ reqs' = [i \in 1..Len(reqs) |->
                   [reqs[i] EXCEPT !.pc = IF InFlight(reqs[i]) THEN "lost" ELSE @,
                                   !.pend = {},
                                   !.histLost = @ + Cardinality(reqs[i].pend)]]
    /\ UNCHANGED <<ddlErrors, schema, users, orders, cart_history, clock>>

\* CURRENT_TIMESTAMP has a resolution of one second: the clock moves on
\* between some statements and not between others.
Tick ==
    /\ clock <= MaxClock
    /\ clock' = clock + 1
    /\ UNCHANGED <<proc, boots, dbOpen, ddl, ddlErrors, schema, users, orders,
                   cart_history, reqs>>

Next ==
    \/ OpenDatabase
    \/ \E t \in Tables : RunCreateTable(t)
    \/ \E u \in LoginUsernames, p \in LoginPasswords : PostLogin(u, p)
    \/ \E i \in 1..MaxReq : LoginGet(i)
    \/ \E i \in 1..MaxReq : LoginRun(i)
    \/ \E b \in OrderBodies : PostOrder(b[1], b[2], b[3])
    \/ \E i \in 1..MaxReq : OrderRun(i)
    \/ \E i \in 1..MaxReq, k \in 1..MaxItems : HistoryRun(i, k)
    \/ \E u \in PathUsernames : GetOrders(u)
    \/ \E i \in 1..MaxReq : OrdersAll(i)
    \/ \E u \in PathUsernames : GetCartHistory(u)
    \/ \E i \in 1..MaxReq : CartHistoryAll(i)
    \/ Restart
    \/ Tick

Spec == Init /\ [][Next]_vars

(***************************************************************************)
(* Properties.                                                             *)
(***************************************************************************)
Reqs == 1..Len(reqs)

\* A field that is absent from the body or an empty string.
AbsentOrEmpty(v) == v = Undefined \/ v = Str("")

\* The users table held a row for the request's username when it arrived
\* (rows are never deleted or updated).
HadUserRow(r) == \E k \in 1..r.t0.users : users[k].username = r.username

\* A history row carries the username of the call and the four fields of an item.
CarriesItem(row, username, item) ==
    /\ row.username = username
    /\ row.item_id = item.id
    /\ row.item_name = item.name
    /\ row.quantity = item.quantity
    /\ row.price = item.price

\* All writes the call issued have been executed.
WritesFinished(r) == ~InFlight(r) /\ r.pend = {} /\ r.histLost = 0

\* C1: every order call that reports success with a sequence of k items has,
\* once its writes have finished, exactly one new orders row (the one its
\* orderId names) and exactly k new cart_history rows, one per item, each
\* with the call's username and the item's id, name, quantity and price.
C1_OneOrderRowAndKHistoryRows ==
    \A i \in Reqs :
        LET r == reqs[i] IN
        (r.kind = "order" /\ r.status = 200 /\ r.items.t = "array" /\ WritesFinished(r)) =>
            /\ r.orderId \in (r.t0.orders + 1)..Len(orders)
            /\ orders[r.orderId].username = r.username
            /\ \A j \in Reqs \ {i} : reqs[j].kind = "order" => reqs[j].rowId # r.orderId
            /\ Cardinality(r.histIds) = Len(r.items.a)
            /\ \E f \in [r.histIds -> 1..Len(r.items.a)] :
                /\ \A a, b \in r.histIds : a # b => f[a] # f[b]
                /\ \A a \in r.histIds :
                    /\ a \in (r.t0.cart_history + 1)..Len(cart_history)
                    /\ CarriesItem(cart_history[a], r.username, r.items.a[f[a]])

\* A login call with both fields present that has been answered.
AnsweredLogin(r) ==
    /\ r.kind = "login"
    /\ ~AbsentOrEmpty(r.username) /\ ~AbsentOrEmpty(r.password)
    /\ r.status # 0

\* C2 (as claimed): a login call for a username without a users row creates
\* exactly one row and answers 200 'User created and login successful'; a
\* call for a username that has a row answers 200 'Login successful' and
\* creates no row.  Stated for the first run of the process with the handle
\* open, where no statement fails for lack of a connection.
C2_FirstCallCreatesLaterCallsLogin ==
    \A i \in Reqs :
        LET r == reqs[i] IN
        (AnsweredLogin(r) /\ dbOpen /\ boots = 1) =>
            IF HadUserRow(r)
            THEN r.status = 200 /\ r.msg = "Login successful" /\ r.rowId = 0
            ELSE /\ r.status = 200 /\ r.msg = "User created and login successful"
                 /\ r.rowId \in (r.t0.users + 1)..Len(users)
                 /\ users[r.rowId].username = r.username

\* The number of login calls whose INSERT added a row.
LoginRowsCreated == Cardinality({i \in Reqs : reqs[i].kind = "login" /\ reqs[i].rowId # 0})

\* What an answered login call holds.
C2_AnswerMatchesRows ==
    \A i \in Reqs :
        LET r == reqs[i] IN
        AnsweredLogin(r) =>
            /\ r.status \in {200, 500}
            /\ r.msg \in {"User created and login successful", "Login successful",
                          "Database error", "Failed to create user"}
            /\ (r.status = 200) =
                    (r.msg \in {"User created and login successful", "Login successful"})
            \* the creating call: exactly one new row, with its username and password
            /\ r.msg = "User created and login successful" =>
                    /\ ~HadUserRow(r)
                    /\ r.rowId \in (r.t0.users + 1)..Len(users)
                    /\ users[r.rowId].username = r.username
                    /\ users[r.rowId].password = r.password
                    /\ \A j \in Reqs \ {i} : reqs[j].kind = "login" => reqs[j].rowId # r.rowId
            /\ r.msg # "User created and login successful" => r.rowId = 0
            \* a call that finds a row, whatever its password
            /\ r.msg = "Login successful" =>
                    \E k \in 1..Len(users) : users[k].username = r.username
            \* a username without a row at arrival and no row of another call since:
            \* the call creates it or fails, it never reports a plain login
            /\ (~HadUserRow(r) /\ r.msg = "Login successful") =>
                    \E k \in (r.t0.users + 1)..Len(users) : users[k].username = r.username
            \* the insert fails on the UNIQUE constraint only: a concurrent call
            \* inserted the username after this call's lookup
            /\ r.msg = "Failed to create user" =>
                    /\ ~HadUserRow(r)
                    /\ \E k \in (r.t0.users + 1)..Len(users) : users[k].username = r.username
            \* a later call never inserts: it logs in, or its lookup fails
            /\ HadUserRow(r) => r.msg \in {"Login successful", "Database error"}

\* C2 (amended): a login call with non-empty username U and password P is
\* answered 200 or 500.  For a U without a row it creates exactly one row
\* (U, P) and answers 200 'User created and login successful', unless a
\* concurrent call inserted U first (then 200 'Login successful' when the
\* lookup already saw that row, 500 'Failed to create user' when only the
\* insert did) or the lookup fails (500 'Database error'); a failing call
\* creates no row.  A call for a U that has a row, whatever its password,
\* answers 'Login successful' and creates no row, unless its lookup fails.
\* Every step adds at most one users row, and only as the row of one call.
C2_LoginOrRegister ==
    /\ []C2_AnswerMatchesRows
    /\ [][/\ Len(users') - Len(users) \in {0, 1}
          /\ Len(users') - Len(users) = LoginRowsCreated' - LoginRowsCreated]_vars

\* Two answered calls for one username with different passwords: the first
\* created the row, the second arrived after that answer and logged in.
C2_Witness ==
    \E i, j \in Reqs :
        /\ AnsweredLogin(reqs[i]) /\ AnsweredLogin(reqs[j])
        /\ reqs[i].username = reqs[j].username
        /\ reqs[i].password # reqs[j].password
        /\ reqs[i].msg = "User created and login successful"
        /\ j > reqs[i].doneAt
        /\ reqs[j].msg = "Login successful"

\* The login calls for a username whose lookup found no row and whose
\* insert has been answered.
InsertAnswered(username) ==
    {i \in Reqs :
        /\ reqs[i].kind = "login"
        /\ reqs[i].username = username
        /\ reqs[i].msg \in {"User created and login successful", "Failed to create user"}}

\* C3: in every reachable state the users table holds at most one row per
\* username; when two or more calls for one unused username all pass the
\* lookup before any of them inserts, exactly one insert succeeds and each
\* other call is answered 500 'Failed to create user', adding no row.
C3_UniqueUsername ==
    /\ \A a, b \in 1..Len(users) : a # b => users[a].username # users[b].username
    /\ \A u \in LoginUsernames :
        LET A == InsertAnswered(u) IN
        Cardinality(A) >= 2 =>
            /\ Cardinality({i \in A : reqs[i].msg = "User created and login successful"}) = 1
            /\ \A i \in A :
                reqs[i].msg = "Failed to create user" =>
                    reqs[i].status = 500 /\ reqs[i].rowId = 0
            /\ Cardinality({k \in 1..Len(users) : users[k].username = u}) = 1

\* Two calls for one username both passed the lookup; both inserts were answered.
C3_Witness ==
    \E i, j \in Reqs :
        /\ i # j
        /\ {i, j} \subseteq InsertAnswered(reqs[i].username)
        /\ reqs[i].status = 200
        /\ reqs[j].status = 500

\* C4: an order call whose order INSERT succeeded reports success, whatever
\* becomes of its history INSERTs: once the callback of the order INSERT has
\* run the answer is 200 'Order placed successfully', the orders row stays,
\* and a failed history INSERT leaves the other history rows in place.
C4_SuccessWheneverOrderInserted ==
    \A i \in Reqs :
        LET r == reqs[i] IN
        (r.kind = "order" /\ r.rowId # 0 /\ r.pc \in {"done", "threw"}) =>
            /\ r.status = 200
            /\ r.msg = "Order placed successfully"
            /\ r.rowId \in 1..Len(orders) /\ orders[r.rowId].username = r.username
            /\ \A a \in r.histIds :
                a \in 1..Len(cart_history) /\ cart_history[a].username = r.username

\* An order call answered 500 has no row, no history INSERT pending or run.
C5_FailedOrderState ==
    \A i \in Reqs :
        LET r == reqs[i] IN
        (r.kind = "order" /\ r.status = 500) =>
            /\ r.msg = "Failed to place order"
            /\ r.rowId = 0 /\ r.orderId = 0
            /\ r.pend = {} /\ r.histIds = {} /\ r.histErrs = 0 /\ r.histLost = 0
\* The step in which an order INSERT runs without adding a row.
C5_FailedOrderStep ==
    \A i \in Reqs :
        (/\ reqs[i].kind = "order" /\ reqs[i].pc = "run"
         /\ boots' = boots
         /\ reqs'[i].pc # "run"
         /\ Len(orders') = Len(orders)) =>
            /\ reqs'[i].status = 500
            /\ reqs'[i].msg = "Failed to place order"
            /\ reqs'[i].pend = {}
            /\ orders' = orders
            /\ cart_history' = cart_history
\* C5: when the order INSERT of a call fails, the call is answered 500
\* 'Failed to place order', no history INSERT is issued for it, and the
\* orders and cart_history tables are as they were.
C5_OrderInsertFailure == []C5_FailedOrderState /\ [][C5_FailedOrderStep]_vars

\* An order of two items, with all fields present, whose INSERT failed.
C5_Witness ==
    \E i \in Reqs :
        /\ reqs[i].kind = "order" /\ reqs[i].status = 500
        /\ reqs[i].items.t = "array" /\ Len(reqs[i].items.a) = 2
        /\ reqs[i].items.a[1] = Pizza

\* C6: after an order call of user U has been answered 200 with orderId n,
\* every GET /api/orders/U request that arrives later and is answered 200
\* lists the order n, and every such GET /api/cart-history/U lists an entry
\* with the name and quantity of each item of the order.
C6_ReadYourWrites ==
    \A i, j \in Reqs :
        LET r == reqs[i]
            q == reqs[j] IN
        (/\ r.kind = "order" /\ r.status = 200 /\ r.items.t = "array"
         /\ j > r.doneAt
         /\ q.username = r.username /\ q.status = 200) =>
            /\ q.kind = "orders" => \E k \in 1..Len(q.rows) : q.rows[k].id = r.orderId
            /\ q.kind = "cart-history" =>
                \A m \in 1..Len(r.items.a) :
                    \E k \in 1..Len(q.rows) :
                        /\ q.rows[k].item_name = Bind(r.items.a[m].name)
                        /\ q.rows[k].quantity = Bind(r.items.a[m].quantity)

\* What the order contract asks of a body: a non-empty username, a non-empty
\* array as items, a positive number as total.
MeetsOrderConstraint(username, items, total) ==
    /\ ~AbsentOrEmpty(username)
    /\ items.t = "array" /\ Len(items.a) >= 1
    /\ total.t = "number" /\ total.n > 0

\* C7: an order request whose username is empty or absent, whose items is
\* not a non-empty sequence, or whose total is not a positive number is
\* answered 400 'Missing required fields' at once: no statement is issued
\* for it and no row is written.
C7_InvalidOrderRejected ==
    \A i \in Reqs :
        LET r == reqs[i] IN
        (r.kind = "order" /\ ~MeetsOrderConstraint(r.username, r.items, r.total)) =>
            /\ r.status = 400
            /\ r.msg = "Missing required fields"
            /\ r.pc = "done"
            /\ r.rowId = 0 /\ r.pend = {} /\ r.histIds = {}

\* A login request with an absent or empty field is answered 400 on arrival
\* and is never at the lookup or the insert.
C8_RejectedLoginState ==
    \A i \in Reqs :
        LET r == reqs[i] IN
        (r.kind = "login" /\ (AbsentOrEmpty(r.username) \/ AbsentOrEmpty(r.password))) =>
            /\ r.status = 400
            /\ r.msg = "Username and password are required"
            /\ r.sent = 1
            /\ r.pc = "done"
            /\ r.doneAt = i
            /\ r.rowId = 0
\* The step that receives a request changes no table.
C8_ArrivalStep == Len(reqs') > Len(reqs) => <<schema, users, orders, cart_history>>' = store
\* C8: a login request whose username or password is absent or empty, in
\* any combination, is answered 400 'Username and password are required' at
\* once: its handler never reaches the lookup or the insert, and the step
\* that receives it leaves every table as it was.
C8_LoginValidation == []C8_RejectedLoginState /\ [][C8_ArrivalStep]_vars

\* A rejected login with a username and an empty password, and one with a
\* password and no username.
C8_Witness ==
    /\ \E i \in Reqs :
        /\ reqs[i].kind = "login" /\ reqs[i].status = 400
        /\ reqs[i].username = Str("alice") /\ reqs[i].password = Str("")
    /\ \E i \in Reqs :
        /\ reqs[i].kind = "login" /\ reqs[i].status = 400
        /\ reqs[i].username = Undefined /\ reqs[i].password = Str("x")

\* The rows of a table, among its first n, that belong to a username.
Matching(table, n, username) == {table[k] : k \in {k \in 1..n : table[k].username = username}}

\* rows lists every element of the set S exactly once.
ListsExactly(rows, S) ==
    /\ Len(rows) = Cardinality(S)
    /\ {rows[k] : k \in 1..Len(rows)} = S

\* The table a query reads and the date it sorts by.
Queried(q) == IF q.kind = "orders" THEN orders ELSE cart_history
DateOf(q, row) == IF q.kind = "orders" THEN row.order_date ELSE row.added_date

C9_ListState ==
    \A j \in Reqs :
        LET q == reqs[j] IN
        (q.kind \in {"orders", "cart-history"} /\ q.status # 0) =>
            /\ q.status \in {200, 500}
            /\ q.status = 500 => q.msg = "Database error" /\ q.rows = <<>>
            /\ (dbOpen /\ boots = 1) => q.status = 200
            /\ q.status = 200 =>
                /\ ListsExactly(q.rows, Matching(Queried(q), q.at, q.username))
                /\ \A k \in 1..(Len(q.rows) - 1) :
                    DateOf(q, q.rows[k]) >= DateOf(q, q.rows[k + 1])
                /\ Matching(Queried(q), q.at, q.username) = {} => q.rows = <<>>
\* A step of a list request changes no table.
C9_ListStep ==
    \A j \in 1..Len(reqs') :
        (/\ reqs'[j].kind \in {"orders", "cart-history"}
         /\ boots' = boots
         /\ (j > Len(reqs) \/ reqs'[j] # reqs[j])) =>
            <<schema, users, orders, cart_history>>' = store

C10_CreateStep ==
    (ddl' # ddl /\ ddl' \subseteq ddl) =>
        /\ ddlErrors' = ddlErrors
        /\ schema \subseteq schema'
        /\ schema' \ schema \subseteq ddl \ ddl'
        /\ (ddl \ ddl') \subseteq schema'
        /\ <<users, orders, cart_history>>' = <<users, orders, cart_history>>
\* C10: the startup statements raise no error whatever tables exist, a
\* statement for an existing table changes nothing, a statement for an
\* absent table adds that table and no other, and no statement touches a
\* row; this holds at the first start and at every later one.
C10_SchemaIdempotent == [](ddlErrors = 0) /\ [][C10_CreateStep]_vars

\* The second start has run all three statements against a store whose
\* tables the first start created and a request has since written to.
C10_Witness ==
    /\ boots = 2 /\ proc = "up" /\ dbOpen /\ ddl = {}
    /\ schema = Tables
    /\ \E i \in Reqs : reqs[i].rowId # 0

\* C11: every POST /api/login and POST /api/order request gets exactly one
\* response on every path.  Stated for the requests whose handler has come
\* to its end, by its last callback returning or by an exception leaving
\* it: after that nothing can answer the request, so it has been answered
\* once by then.
C11_ExactlyOneResponse ==
    \A i \in Reqs :
        LET r == reqs[i] IN
        (r.kind \in {"login", "order"} /\ r.pc \in {"done", "threw"}) =>
            r.sent = 1 /\ r.status # 0
====
